---- MODULE Spec2Model ----
(***************************************************************************)
(* A model of the cli package: App.Run (app.go) and the Context, the       *)
(* typed lookups and the alias normalizer normalizeFlags (context.go).     *)
(*                                                                         *)
(* A string that the code splits or trims (a flag's or a command's Name,   *)
(* "version, v") is a sequence of tokens: words, "," and " ".  The name of *)
(* one alias is therefore a sequence as well (<<"version">>).              *)
(*                                                                         *)
(* A flag.FlagSet is a record                                              *)
(*    formal : alias name -> value cell      (FlagSet.formal)              *)
(*    actual : the alias names that were set (FlagSet.actual, what Visit   *)
(*             enumerates)                                                 *)
(*    args   : the arguments left after the flags (FlagSet.Args())         *)
(* A value cell is [kind, s, list]: s is what Value.String() returns for a *)
(* scalar flag, list is the content of a StringSlice.                      *)
(***************************************************************************)
EXTENDS Integers, Sequences, FiniteSets, TLC

VARIABLES
    \* ---- the application (App) and one call of App.Run
    Flags,        \* a.Flags
    Commands,     \* a.Commands
    Before,       \* a.Before: "nil", or what the hook returns: "ok" / "fail"
    pc,           \* where App.Run is
    set,          \* the FlagSet built by Run (local variable set)
    err,          \* what set.Parse returned (local variable err)
    nerr,         \* what normalizeFlags returned (local variable nerr)
    berr,         \* what the Before hook returned
    context,      \* the Context built by Run (local variable context)
    cmdContext,   \* the Context built by Command.Run for the handler
    log,          \* what the current run has invoked, in order
    ret,          \* what the current run returned
    handlerFailed,\* whether the handler that ran met a failure
    isSetCalls,   \* IsSet calls made in the current run
    lastIsSet,    \* the latest IsSet call: its Context, name and answer
    \* ---- normalizeFlags applied to a parsed table, repeatedly
    nflags,       \* the flag list
    nparsed,      \* the table as the parser left it
    nafter1,      \* the table after the first call
    nset,         \* the table now
    nret,         \* the return value of the latest call
    nfirst,       \* the return value of the first call
    ncalls        \* calls made

appVars == <<Flags, Commands, Before, pc, set, err, nerr, berr, context,
             cmdContext, log, ret, handlerFailed, isSetCalls, lastIsSet>>
normVars == <<nflags, nparsed, nafter1, nset, nret, nfirst, ncalls>>
vars == <<appVars, normVars>>

----------------------------------------------------------------------------
(* Bounds *)

MaxArgs == 3
MaxIsSetCalls == 2
MaxNormCalls == 2

----------------------------------------------------------------------------
(* strings.Split, strings.TrimSpace, mapS *)

RECURSIVE Split(_, _)
Split(s, sep) ==
    IF \A i \in 1..Len(s) : s[i] # sep
    THEN <<s>>
    ELSE LET i == CHOOSE k \in 1..Len(s) :
                      s[k] = sep /\ \A j \in 1..(k - 1) : s[j] # sep
         IN  <<SubSeq(s, 1, i - 1)>> \o Split(SubSeq(s, i + 1, Len(s)), sep)

RECURSIVE TrimLeft(_)
TrimLeft(s) ==
    IF s # <<>> /\ Head(s) = " " THEN TrimLeft(Tail(s)) ELSE s

RECURSIVE TrimRight(_)
TrimRight(s) ==
    IF s # <<>> /\ s[Len(s)] = " " THEN TrimRight(SubSeq(s, 1, Len(s) - 1)) ELSE s

TrimSpace(s) == TrimRight(TrimLeft(s))

\* mapS(sl, strings.TrimSpace), the only use the package makes of mapS
mapS(sl) == [i \in 1..Len(sl) |-> TrimSpace(sl[i])]

getName(f) == f.Name

\* parts := mapS(strings.Split(f.getName(), ","), strings.TrimSpace)
PartsOf(name) == mapS(Split(name, ","))

Range(seq) == {seq[i] : i \in 1..Len(seq)}

----------------------------------------------------------------------------
(* Errors.  Every error is a record of one shape; Nil is the nil error. *)

Nil == [type |-> "nil", n1 |-> <<>>, n2 |-> <<>>]
SyntaxError == [type |-> "syntax", n1 |-> <<>>, n2 |-> <<>>]
HookError == [type |-> "hook", n1 |-> <<>>, n2 |-> <<>>]
HandlerError == [type |-> "handler", n1 |-> <<>>, n2 |-> <<>>]
\* errors.New("Cannot use two forms of the same flag: " + name + " " + ff.Name)
ConflictError(name, ffName) == [type |-> "conflict", n1 |-> name, n2 |-> ffName]

----------------------------------------------------------------------------
(* Value cells: flag.Value of each kind *)

Kinds == {"Bool", "Int", "String", "StringSlice"}

\* strconv.ParseBool
BoolTrue == {"1", "t", "T", "TRUE", "true", "True"}
BoolFalse == {"0", "f", "F", "FALSE", "false", "False"}
ParseBoolOk(s) == s \in BoolTrue \cup BoolFalse
ParseBool(s) == s \in BoolTrue

\* strconv.Atoi / strconv.ParseInt on the numerals the model uses
IntTable == [s \in {"0", "1", "2", "+1", "+2"} |->
                CASE s = "0" -> 0
                  [] s \in {"1", "+1"} -> 1
                  [] OTHER -> 2]
AtoiOk(s) == s \in DOMAIN IntTable
Atoi(s) == IntTable[s]
Itoa(i) == CASE i = 0 -> "0" [] i = 1 -> "1" [] OTHER -> "2"

DefaultCell(kind) ==
    CASE kind = "Bool" -> [kind |-> kind, s |-> "false", list |-> <<>>]
      [] kind = "Int" -> [kind |-> kind, s |-> "0", list |-> <<>>]
      [] OTHER -> [kind |-> kind, s |-> "", list |-> <<>>]

\* Value.Set(value) succeeds
ValueSetOk(cell, value) ==
    CASE cell.kind = "Bool" -> ParseBoolOk(value)
      [] cell.kind = "Int" -> AtoiOk(value)
      [] OTHER -> TRUE

\* the cell after a successful Value.Set(value)
ValueSet(cell, value) ==
    CASE cell.kind = "Bool" ->
            [cell EXCEPT !.s = IF ParseBool(value) THEN "true" ELSE "false"]
      [] cell.kind = "Int" -> [cell EXCEPT !.s = Itoa(Atoi(value))]
      [] cell.kind = "String" -> [cell EXCEPT !.s = value]
      [] OTHER -> [cell EXCEPT !.list = Append(@, value)]

\* Value.String(); fmt.Sprintf("%s", list) for a StringSlice
RECURSIVE JoinWords(_)
JoinWords(l) ==
    IF l = <<>> THEN ""
    ELSE IF Len(l) = 1 THEN l[1]
    ELSE l[1] \o " " \o JoinWords(Tail(l))

ValueString(cell) ==
    IF cell.kind = "StringSlice" THEN "[" \o JoinWords(cell.list) \o "]"
    ELSE cell.s

----------------------------------------------------------------------------
(* flag.FlagSet *)

\* every alias name the flag list registers, in order of registration
RECURSIVE FlagNames(_)
FlagNames(flags) ==
    IF flags = <<>> THEN <<>>
    ELSE PartsOf(getName(Head(flags))) \o FlagNames(Tail(flags))

\* flag.FlagSet.Var panics when a name is defined twice ("flag redefined")
Redefined(flags) ==
    LET names == FlagNames(flags)
    IN  \E i, j \in 1..Len(names) : i < j /\ names[i] = names[j]

KindOfName(flags, name) ==
    LET i == CHOOSE k \in 1..Len(flags) : name \in Range(PartsOf(getName(flags[k])))
    IN  flags[i].kind

\* flagSet(name, flags): one cell per alias, holding the kind's default
flagSet(flags) ==
    [formal |-> [n \in Range(FlagNames(flags)) |-> DefaultCell(KindOfName(flags, n))],
     actual |-> {},
     args |-> <<>>]

\* set.Lookup(name): the cell, reported absent when name is not defined
Defined(fs, name) == name \in DOMAIN fs.formal
Lookup(fs, name) == fs.formal[name]

\* set.Set(name, value): no effect when the name is unknown or the value
\* does not parse; otherwise the cell is updated and the name is recorded
\* in actual.
FlagSetSetOk(fs, name, value) ==
    Defined(fs, name) /\ ValueSetOk(Lookup(fs, name), value)

FlagSetSet(fs, name, value) ==
    IF FlagSetSetOk(fs, name, value)
    THEN [fs EXCEPT !.formal[name] = ValueSet(@, value),
                    !.actual = @ \cup {name}]
    ELSE fs

\* set.Visit: the names that were set
Visited(fs) == fs.actual

\* set.Parse(arguments).  An argument is a record: a flag "-name=val"
\* ([flag |-> TRUE]) or a word ([flag |-> FALSE]).  Parsing stops at the
\* first word (the rest is Args()) or at the first flag that is undefined
\* or whose value does not parse (an error).
RECURSIVE Parse(_, _)
Parse(fs, arguments) ==
    IF arguments = <<>> THEN [set |-> [fs EXCEPT !.args = <<>>], err |-> Nil]
    ELSE LET a == Head(arguments) IN
         IF ~a.flag THEN [set |-> [fs EXCEPT !.args = arguments], err |-> Nil]
         ELSE IF ~FlagSetSetOk(fs, a.name, a.val)
         THEN [set |-> [fs EXCEPT !.args = Tail(arguments)], err |-> SyntaxError]
         ELSE Parse(FlagSetSet(fs, a.name, a.val), Tail(arguments))

----------------------------------------------------------------------------
(* context.go: lookups *)

lookupInt(name, fs) ==
    IF ~Defined(fs, name) THEN 0
    ELSE IF ~AtoiOk(ValueString(Lookup(fs, name))) THEN 0
    ELSE Atoi(ValueString(Lookup(fs, name)))

lookupString(name, fs) ==
    IF ~Defined(fs, name) THEN "" ELSE ValueString(Lookup(fs, name))

lookupStringSlice(name, fs) ==
    IF ~Defined(fs, name) THEN <<>> ELSE Lookup(fs, name).list

lookupBool(name, fs) ==
    IF ~Defined(fs, name) THEN FALSE
    ELSE IF ~ParseBoolOk(ValueString(Lookup(fs, name))) THEN FALSE
    ELSE ParseBool(ValueString(Lookup(fs, name)))

----------------------------------------------------------------------------
(* context.go: copyFlag, normalizeFlags *)

\* a slip: the value is set under the name it was read from
copyFlagToSelf(name, ff, fs) ==
    IF ff.Value.kind = "StringSlice" THEN fs
    ELSE FlagSetSet(fs, ff.Name, ValueString(ff.Value))

\* ff is [Name, Value]: a *flag.Flag
copyFlag(name, ff, fs) ==
    IF ff.Value.kind = "StringSlice" THEN fs
    ELSE FlagSetSet(fs, name, ValueString(ff.Value))

\* a slip: a second alias that was set replaces the first, no error
RECURSIVE FindSetNoConflict(_, _, _, _, _)
FindSetNoConflict(parts, i, visited, fs, ff) ==
    IF i > Len(parts) THEN [err |-> Nil, ff |-> ff]
    ELSE IF parts[i] \in visited
         THEN FindSetNoConflict(parts, i + 1, visited, fs,
                                [found |-> TRUE, Name |-> parts[i],
                                 Value |-> Lookup(fs, parts[i])])
         ELSE FindSetNoConflict(parts, i + 1, visited, fs, ff)

\* the first loop over parts: [err, ff]; ff.found = FALSE is ff == nil
RECURSIVE FindSet(_, _, _, _, _)
FindSet(parts, i, visited, fs, ff) ==
    IF i > Len(parts) THEN [err |-> Nil, ff |-> ff]
    ELSE IF parts[i] \in visited
         THEN IF ff.found
              THEN [err |-> ConflictError(parts[i], ff.Name), ff |-> ff]
              ELSE FindSet(parts, i + 1, visited, fs,
                           [found |-> TRUE, Name |-> parts[i],
                            Value |-> Lookup(fs, parts[i])])
         ELSE FindSet(parts, i + 1, visited, fs, ff)

NoFlag == [found |-> FALSE, Name |-> <<>>, Value |-> DefaultCell("String")]

\* the second loop over parts
RECURSIVE CopyToUnset(_, _, _, _, _)
CopyToUnset(parts, i, visited, ff, fs) ==
    IF i > Len(parts) THEN fs
    ELSE IF parts[i] \notin visited
         THEN CopyToUnset(parts, i + 1, visited, ff, copyFlag(parts[i], ff, fs))
         ELSE CopyToUnset(parts, i + 1, visited, ff, fs)

\* the loop over flags, from flag i on
RECURSIVE NormalizeFrom(_, _, _, _)
NormalizeFrom(flags, i, visited, fs) ==
    IF i > Len(flags) THEN [err |-> Nil, set |-> fs]
    ELSE LET parts == PartsOf(getName(flags[i])) IN
         IF Len(parts) = 1 THEN NormalizeFrom(flags, i + 1, visited, fs)
         ELSE LET r == FindSet(parts, 1, visited, fs, NoFlag) IN
              IF r.err # Nil THEN [err |-> r.err, set |-> fs]
              ELSE IF ~r.ff.found THEN NormalizeFrom(flags, i + 1, visited, fs)
              ELSE NormalizeFrom(flags, i + 1, visited,
                                 CopyToUnset(parts, 1, visited, r.ff, fs))

\* normalizeFlags(flags, set): [err, set], set being the table afterwards
normalizeFlags(flags, fs) == NormalizeFrom(flags, 1, Visited(fs), fs)

----------------------------------------------------------------------------
(* Flag lists and argument vectors *)

Flag(kind, name, usage) == [kind |-> kind, Name |-> name, Usage |-> usage]
FlagArg(name, val) == [flag |-> TRUE, name |-> name, val |-> val]
WordArg(word) == [flag |-> FALSE, name |-> word, val |-> ""]

SeqsUpTo(S, n) == UNION {[1..k -> S] : k \in 0..n}

FA == Flag("Bool", <<"a", ",", " ", "b">>, "")
FC == Flag("Int", <<"c", ",", "d">>, "")
FS == Flag("String", <<"s", ",", " ", "t", " ", ",", "u">>, "")
FL == Flag("StringSlice", <<"l", ",", " ", "m">>, "")
FX == Flag("String", <<"x">>, "")

NormFlagLists ==
    {<<FA, FC>>, <<FC, FA>>, <<FS>>, <<FL, FA>>, <<FA, FL>>, <<FX, FS>>,
     <<FL>>, <<FA, FC, FS>>}

NormTokens ==
    {FlagArg(<<"a">>, "true"), FlagArg(<<"b">>, "F"), FlagArg(<<"c">>, "1"),
     FlagArg(<<"d">>, "+2"), FlagArg(<<"c">>, "x"), FlagArg(<<"s">>, "p"),
     FlagArg(<<"t">>, "q"), FlagArg(<<"u">>, "p"), FlagArg(<<"l">>, "p"),
     FlagArg(<<"m">>, "q"), FlagArg(<<"x">>, "p")}

\* the arguments that name a flag of the list, and one that names none
NormTokensFor(flags) ==
    {t \in NormTokens : t.name \in Range(FlagNames(flags))}
        \cup {FlagArg(<<"z">>, "p")}

----------------------------------------------------------------------------
(* context.go: Context *)

\* NewContext(app, set, globalSet); setFlags is nil until IsSet fills it.
\* visits counts the calls of flagSet.Visit made for this Context.
NewContext(fs, globalSet) ==
    [flagSet |-> fs, globalSet |-> globalSet,
     cached |-> FALSE, setFlags |-> {}, visits |-> 0]

NoContext == NewContext(flagSet(<<>>), flagSet(<<>>))

\* a slip: the table of set flags is rebuilt on every call
IsSetUncached(c, name) ==
    [context |-> [c EXCEPT !.cached = TRUE, !.setFlags = Visited(c.flagSet),
                           !.visits = @ + 1],
     result |-> name \in Visited(c.flagSet)]

\* c.IsSet(name): [context, result], context being c afterwards
IsSet(c, name) ==
    LET c1 == IF ~c.cached
              THEN [c EXCEPT !.cached = TRUE, !.setFlags = Visited(c.flagSet),
                             !.visits = @ + 1]
              ELSE c
    IN  [context |-> c1, result |-> name \in c1.setFlags]

\* c.Args(), Args.Present(), Args.First()
Args(c) == c.flagSet.args
Present(a) == Len(a) # 0
First(a) == IF Len(a) > 0 THEN a[1].name ELSE <<>>
ArgsTail(a) == IF Len(a) >= 2 THEN Tail(a) ELSE <<>>

----------------------------------------------------------------------------
(* Commands, and the help and version checks *)

Cmd(id, name, flags) == [id |-> id, Name |-> name, Flags |-> flags]

\* c.HasName(name): name is one of the comma-split, trimmed aliases
HasName(c, name) == name \in Range(PartsOf(c.Name))

helpCommand == Cmd("help", <<"help">>, <<>>)

\* checkHelp(context), checkVersion(context): the flag's value is true
checkHelp(c) ==
    lookupBool(<<"h">>, c.globalSet) \/ lookupBool(<<"help">>, c.globalSet)
checkVersion(c) == lookupBool(<<"version">>, c.globalSet)

\* c.Run(ctx) up to the call of the handler: the command's own flags are
\* parsed from the arguments after the command's name; a syntax error ends
\* the run, otherwise the handler gets a Context of the command's table and
\* the application's table.
CommandRun(c, ctx) ==
    LET p == Parse(flagSet(c.Flags), ArgsTail(Args(ctx)))
    IN  [err |-> p.err, context |-> NewContext(p.set, ctx.globalSet)]

----------------------------------------------------------------------------
(* app.go *)

\* a slip: the last command of that name is taken
CommandLast(cmds, name) ==
    IF \E i \in 1..Len(cmds) : HasName(cmds[i], name)
    THEN CHOOSE i \in 1..Len(cmds) :
            HasName(cmds[i], name)
            /\ \A j \in (i + 1)..Len(cmds) : ~HasName(cmds[j], name)
    ELSE 0

\* a.Command(name): the index of the command, 0 for nil
Command(cmds, name) ==
    IF \E i \in 1..Len(cmds) : HasName(cmds[i], name)
    THEN CHOOSE i \in 1..Len(cmds) :
            HasName(cmds[i], name) /\ \A j \in 1..(i - 1) : ~HasName(cmds[j], name)
    ELSE 0

hasFlag(flags, flag) == \E i \in 1..Len(flags) : flag = flags[i]

appendFlag(flags, flag) ==
    IF ~hasFlag(flags, flag) THEN Append(flags, flag) ELSE flags

\* BoolFlag{"version, v", "print the version"}, BoolFlag{"help, h", "show help"}
VersionFlag == Flag("Bool", <<"version", ",", " ", "v">>, "print the version")
HelpFlag == Flag("Bool", <<"help", ",", " ", "h">>, "show help")

E(ev, cmd) == [ev |-> ev, cmd |-> cmd]

NoIsSet == [made |-> FALSE, local |-> FALSE, name |-> <<>>, result |-> FALSE]

\* the locals of Run before it has run
RunIdle ==
    /\ pc = "idle"
    /\ set = flagSet(<<>>)
    /\ err = Nil
    /\ nerr = Nil
    /\ berr = Nil
    /\ context = NoContext
    /\ cmdContext = NoContext
    /\ log = <<>>
    /\ ret = Nil
    /\ handlerFailed = FALSE
    /\ isSetCalls = 0
    /\ lastIsSet = NoIsSet

\* what the application's author registered before the first Run
UserFlagLists ==
    {<<>>,
     <<Flag("Bool", <<"version", ",", " ", "v">>, "print the version")>>,
     <<Flag("Bool", <<"help", ",", " ", "h">>, "help me")>>,
     <<Flag("String", <<"name", ",", " ", "n">>, "")>>}

Serve == Cmd("serve", <<"serve", ",", " ", "s">>, <<Flag("Bool", <<"p">>, "")>>)
Stop == Cmd("stop", <<"stop", ",", "s">>, <<>>)

UserCommandLists == {<<>>, <<Serve, Stop>>}

ArgTokens ==
    {FlagArg(<<"v">>, "true"), FlagArg(<<"version">>, "true"),
     FlagArg(<<"h">>, "true"), FlagArg(<<"n">>, "q"), FlagArg(<<"p">>, "true"),
     WordArg(<<"s">>), WordArg(<<"stop">>), WordArg(<<"other">>)}

IsSetNames == {<<"n">>, <<"p">>}

Init ==
    /\ Flags \in UserFlagLists
    /\ Commands \in UserCommandLists
    /\ Before \in {"nil", "hook"}
    /\ RunIdle
    /\ nflags = <<>>
    /\ nparsed = flagSet(<<>>)
    /\ nafter1 = nparsed
    /\ nset = nparsed
    /\ nret = Nil
    /\ nfirst = Nil
    /\ ncalls = 0

\* a slip: a syntax error is not looked at
AfterParseNoErrCheck(e, ne) ==
    IF ne # Nil
    THEN [pc |-> "returned", ret |-> ne, log |-> <<E("ShowAppHelp", "")>>]
    ELSE [pc |-> "checkHelp", ret |-> Nil, log |-> <<>>]

\* Run, from the call of normalizeFlags to the check of err
AfterParse(e, ne) ==
    IF ne # Nil
    THEN [pc |-> "returned", ret |-> ne, log |-> <<E("ShowAppHelp", "")>>]
    ELSE IF e # Nil
    THEN [pc |-> "returned", ret |-> e, log |-> <<E("ShowAppHelp", "")>>]
    ELSE [pc |-> "checkHelp", ret |-> Nil, log |-> <<>>]

\* Run, from its start to the check of err.  arguments[1] is the program.
RunParse ==
    /\ pc = "idle"
    /\ \E av \in SeqsUpTo(ArgTokens, MaxArgs) :
        LET arguments == <<WordArg(<<"prog">>)>> \o av
            cmds == IF Command(Commands, helpCommand.Name) = 0
                    THEN Append(Commands, helpCommand) ELSE Commands
            flags == appendFlag(appendFlag(Flags, VersionFlag), HelpFlag)
        IN  /\ Commands' = cmds
            /\ Flags' = flags
            /\ IF Redefined(flags)
               THEN /\ pc' = "panicked"
                    /\ UNCHANGED <<set, err, nerr, context, log, ret>>
               ELSE LET p == Parse(flagSet(flags), Tail(arguments))
                        n == normalizeFlags(flags, p.set)
                        a == AfterParse(p.err, n.err)
                    IN  /\ set' = n.set
                        /\ err' = p.err
                        /\ nerr' = n.err
                        /\ context' = NewContext(n.set, n.set)
                        /\ pc' = a.pc
                        /\ ret' = a.ret
                        /\ log' = a.log
    /\ UNCHANGED <<Before, berr, cmdContext, handlerFailed, isSetCalls, lastIsSet,
                   normVars>>

\* a slip: the help is shown and the run goes on
CheckHelpGoesOn ==
    /\ pc = "checkHelp"
    /\ IF checkHelp(context)
       THEN log' = Append(log, E("HelpHandled", ""))
       ELSE log' = log
    /\ pc' = "checkVersion"
    /\ UNCHANGED <<Flags, Commands, Before, set, err, nerr, berr, context, ret,
                   cmdContext, handlerFailed, isSetCalls, lastIsSet, normVars>>

\* if checkHelp(context) { return nil }
CheckHelp ==
    /\ pc = "checkHelp"
    /\ IF checkHelp(context)
       THEN /\ log' = Append(log, E("HelpHandled", ""))
            /\ ret' = Nil
            /\ pc' = "returned"
       ELSE /\ pc' = "checkVersion"
            /\ UNCHANGED <<log, ret>>
    /\ UNCHANGED <<Flags, Commands, Before, set, err, nerr, berr, context,
                   cmdContext, handlerFailed, isSetCalls, lastIsSet, normVars>>

\* if checkVersion(context) { return nil }
CheckVersion ==
    /\ pc = "checkVersion"
    /\ IF checkVersion(context)
       THEN /\ log' = Append(log, E("VersionHandled", ""))
            /\ ret' = Nil
            /\ pc' = "returned"
       ELSE /\ pc' = "before"
            /\ UNCHANGED <<log, ret>>
    /\ UNCHANGED <<Flags, Commands, Before, set, err, nerr, berr, context,
                   cmdContext, handlerFailed, isSetCalls, lastIsSet, normVars>>

\* if a.Before != nil { err := a.Before(context) ...
CallBefore ==
    /\ pc = "before"
    /\ IF Before # "nil"
       THEN /\ log' = Append(log, E("Before", ""))
            /\ pc' = "inBefore"
       ELSE /\ pc' = "dispatch"
            /\ UNCHANGED log
    /\ UNCHANGED <<Flags, Commands, Before, set, err, nerr, berr, context, ret,
                   cmdContext, handlerFailed, isSetCalls, lastIsSet, normVars>>

\* a slip: the hook's error is dropped
AfterBeforeDropsErr(e) == [pc |-> "dispatch", ret |-> Nil]

\* ... if err != nil { return err } }
AfterBefore(e) ==
    IF e # Nil THEN [pc |-> "returned", ret |-> e]
    ELSE [pc |-> "dispatch", ret |-> Nil]

\* the hook returns, with an error or without
BeforeReturn ==
    /\ pc = "inBefore"
    /\ \E e \in {Nil, HookError} :
        /\ berr' = e
        /\ pc' = AfterBefore(e).pc
        /\ ret' = AfterBefore(e).ret
    /\ UNCHANGED <<Flags, Commands, Before, set, err, nerr, context, log,
                   cmdContext, handlerFailed, isSetCalls, lastIsSet, normVars>>

\* args := context.Args() ... c.Run(context), or a.Action(context)
Dispatch ==
    /\ pc = "dispatch"
    /\ LET args == Args(context)
           c == IF Present(args) THEN Command(Commands, First(args)) ELSE 0
       IN  IF c # 0
           THEN LET r == CommandRun(Commands[c], context) IN
                IF r.err # Nil
                THEN /\ log' = Append(log, E("Command", Commands[c].id))
                     /\ ret' = r.err
                     /\ pc' = "returned"
                     /\ UNCHANGED cmdContext
                ELSE /\ log' = Append(log, E("Command", Commands[c].id))
                     /\ cmdContext' = r.context
                     /\ pc' = "inCommand"
                     /\ UNCHANGED ret
           ELSE /\ log' = Append(log, E("Action", ""))
                /\ pc' = "inAction"
                /\ UNCHANGED <<ret, cmdContext>>
    /\ UNCHANGED <<Flags, Commands, Before, set, err, nerr, berr, context,
                   handlerFailed, isSetCalls, lastIsSet, normVars>>

\* a slip: c.Run's result is dropped
CommandResultDropped(failed) == Nil

\* return c.Run(context): the handler's failure, or nil
CommandResult(failed) == IF failed THEN HandlerError ELSE Nil

\* the command's handler returns
CommandReturn ==
    /\ pc = "inCommand"
    /\ \E failed \in BOOLEAN :
        /\ handlerFailed' = failed
        /\ ret' = CommandResult(failed)
    /\ pc' = "returned"
    /\ UNCHANGED <<Flags, Commands, Before, set, err, nerr, berr, context, log,
                   cmdContext, isSetCalls, lastIsSet, normVars>>

\* a.Action(context) returns; return nil.  Action is func(context *Context):
\* whatever went wrong in it, it has no result.
ActionReturn ==
    /\ pc = "inAction"
    /\ \E failed \in BOOLEAN : handlerFailed' = failed
    /\ ret' = Nil
    /\ pc' = "returned"
    /\ UNCHANGED <<Flags, Commands, Before, set, err, nerr, berr, context, log,
                   cmdContext, isSetCalls, lastIsSet, normVars>>

\* the hook, the default action (both hold context) or the command's
\* handler (which holds the command's Context) asks IsSet(name)
CallIsSet ==
    /\ pc \in {"inBefore", "inAction", "inCommand"}
    /\ isSetCalls < MaxIsSetCalls
    /\ \E name \in IsSetNames :
        IF pc = "inCommand"
        THEN /\ cmdContext' = IsSet(cmdContext, name).context
             /\ lastIsSet' = [made |-> TRUE, local |-> TRUE, name |-> name,
                              result |-> IsSet(cmdContext, name).result]
             /\ UNCHANGED context
        ELSE /\ context' = IsSet(context, name).context
             /\ lastIsSet' = [made |-> TRUE, local |-> FALSE, name |-> name,
                              result |-> IsSet(context, name).result]
             /\ UNCHANGED cmdContext
    /\ isSetCalls' = isSetCalls + 1
    /\ UNCHANGED <<Flags, Commands, Before, pc, set, err, nerr, berr, log, ret,
                   handlerFailed, normVars>>

\* Run has returned: its locals are gone, the App stays as Run left it
Exit ==
    /\ pc = "returned"
    /\ pc' = "idle"
    /\ set' = flagSet(<<>>)
    /\ err' = Nil
    /\ nerr' = Nil
    /\ berr' = Nil
    /\ context' = NoContext
    /\ cmdContext' = NoContext
    /\ log' = <<>>
    /\ ret' = Nil
    /\ handlerFailed' = FALSE
    /\ isSetCalls' = 0
    /\ lastIsSet' = NoIsSet
    /\ UNCHANGED <<Flags, Commands, Before, normVars>>

Next ==
    \/ RunParse
    \/ CheckHelp
    \/ CheckVersion
    \/ CallBefore
    \/ BeforeReturn
    \/ Dispatch
    \/ CommandReturn
    \/ ActionReturn
    \/ CallIsSet
    \/ Exit

Spec == Init /\ [][Next]_vars

----------------------------------------------------------------------------
(* Claims about App.Run and Context.IsSet *)

LogCount(evs) == Cardinality({i \in 1..Len(log) : log[i].ev \in evs})

Running == pc \notin {"idle", "panicked"}
ParsedOk == Running /\ err = Nil /\ nerr = Nil

\* the flags as the user gave them: -h, -v
HelpFlagSet == lookupBool(<<"h">>, set)
VersionFlagSet == lookupBool(<<"v">>, set)

NamesCommand == Present(set.args) /\ Command(Commands, First(set.args)) # 0

\* C4: after a successful parse and normalization, a set help flag ends the
\* run with nil and nothing but the help handled; failing that, a set
\* version flag ends it with nil and nothing but the version handled; and no
\* run handles more than one of help, version and dispatch.
C4_HelpThenVersion ==
    /\ LogCount({"HelpHandled", "VersionHandled", "Command", "Action"}) <= 1
    /\ (ParsedOk /\ HelpFlagSet /\ pc # "checkHelp")
          => (pc = "returned" /\ ret = Nil /\ log = <<E("HelpHandled", "")>>)
    /\ (ParsedOk /\ ~HelpFlagSet /\ VersionFlagSet
            /\ pc \notin {"checkHelp", "checkVersion"})
          => (pc = "returned" /\ ret = Nil /\ log = <<E("VersionHandled", "")>>)

\* help and version both set, a hook registered, a command named: help only
C4_Witness ==
    /\ pc = "returned"
    /\ ParsedOk
    /\ HelpFlagSet
    /\ VersionFlagSet
    /\ Before = "hook"
    /\ NamesCommand
    /\ log = <<E("HelpHandled", "")>>

\* C5: a syntax error of the parser or a conflict of the normalizer ends the
\* run at once: the application help is rendered, the error is returned (the
\* conflict when there are both), and nothing else is invoked.
C5_ParseErrorsReturned ==
    (Running /\ (err # Nil \/ nerr # Nil))
        => /\ pc = "returned"
           /\ ret # Nil
           /\ ret = (IF nerr # Nil THEN nerr ELSE err)
           /\ log = <<E("ShowAppHelp", "")>>

\* a syntax error alone, with the help flag set before it and a hook
\* registered
C5_Witness ==
    /\ pc = "returned"
    /\ err = SyntaxError
    /\ nerr = Nil
    /\ ret = SyntaxError
    /\ HelpFlagSet
    /\ Before = "hook"
    /\ log = <<E("ShowAppHelp", "")>>

\* C6: the hook is invoked at most once, first of all and only after a
\* successful parse and normalization with neither help nor version set; when
\* it fails the run returns its error and invokes nothing else.
C6_BeforeHook ==
    /\ LogCount({"Before"}) <= 1
    /\ LogCount({"Before"}) = 1
          => /\ Before = "hook"
             /\ ParsedOk
             /\ ~HelpFlagSet
             /\ ~VersionFlagSet
             /\ log[1] = E("Before", "")
    /\ (Running /\ berr # Nil)
          => (pc = "returned" /\ ret = berr /\ log = <<E("Before", "")>>)

\* the hook failed although the arguments name a command
C6_Witness ==
    /\ pc = "returned"
    /\ berr = HookError
    /\ ret = HookError
    /\ NamesCommand
    /\ log = <<E("Before", "")>>

\* the run got as far as the dispatch
Dispatched ==
    \/ pc \in {"inCommand", "inAction"}
    \/ pc = "returned" /\ ParsedOk /\ ~HelpFlagSet /\ ~VersionFlagSet /\ berr = Nil

C9_IsSetLocalCached ==
    /\ \A c \in {context, cmdContext} :
          /\ c.visits = (IF c.cached THEN 1 ELSE 0)
          /\ c.cached => c.setFlags = Visited(c.flagSet)
    /\ lastIsSet.made
          => LET c == IF lastIsSet.local THEN cmdContext ELSE context
             IN  /\ c.cached
                 /\ lastIsSet.result = (lastIsSet.name \in Visited(c.flagSet))

\* the second call on a command's Context, for a name set only globally
C9_Witness ==
    /\ lastIsSet.made
    /\ lastIsSet.local
    /\ isSetCalls = 2
    /\ cmdContext.visits = 1
    /\ lastIsSet.name \in Visited(cmdContext.globalSet)
    /\ lastIsSet.name \notin Visited(cmdContext.flagSet)
    /\ Visited(cmdContext.flagSet) # {}
    /\ lastIsSet.result = FALSE

\* C10 as stated: whatever the caller registered and however often Run was
\* called, no flag name is registered twice in App.Flags.
C10_NoNameTwice == ~Redefined(Flags)

----------------------------------------------------------------------------
(* The normalizer on its own: a table as the parser produced it, and *)
(* normalizeFlags called on it again and again.                      *)

InitNorm ==
    /\ Flags = <<>>
    /\ Commands = <<>>
    /\ Before = "nil"
    /\ RunIdle
    /\ \E fl \in NormFlagLists :
         \E av \in SeqsUpTo(NormTokensFor(fl), MaxArgs) :
            /\ nflags = fl
            /\ nparsed = Parse(flagSet(fl), av).set
    /\ nset = nparsed
    /\ nafter1 = nparsed
    /\ nret = Nil
    /\ nfirst = Nil
    /\ ncalls = 0

Normalize ==
    /\ ncalls < MaxNormCalls
    /\ LET r == normalizeFlags(nflags, nset) IN
         /\ nset' = r.set
         /\ nret' = r.err
         /\ nafter1' = IF ncalls = 0 THEN r.set ELSE nafter1
         /\ nfirst' = IF ncalls = 0 THEN r.err ELSE nfirst
    /\ ncalls' = ncalls + 1
    /\ UNCHANGED <<nflags, nparsed, appVars>>

NextNorm == Normalize

SpecNorm == InitNorm /\ [][NextNorm]_vars

----------------------------------------------------------------------------
(* Claims about normalizeFlags *)

\* the typed accessor of the flag's kind answers alike under a and b
AccessorsAgree(kind, a, b, fs) ==
    CASE kind = "Bool" -> lookupBool(a, fs) = lookupBool(b, fs)
      [] kind = "Int" -> lookupInt(a, fs) = lookupInt(b, fs)
      [] kind = "String" -> lookupString(a, fs) = lookupString(b, fs)
      [] OTHER -> lookupStringSlice(a, fs) = lookupStringSlice(b, fs)

SetOnCommandLine(parts) == Range(parts) \cap Visited(nparsed)

AliasesAgree(f) ==
    LET parts == PartsOf(getName(f)) IN
    (Len(parts) >= 2 /\ Cardinality(SetOnCommandLine(parts)) <= 1)
        => \A a, b \in Range(parts) : AccessorsAgree(f.kind, a, b, nset)

C2_ConflictLeavesTable ==
    (ncalls = 1 /\ nret # Nil)
        => /\ nret.type = "conflict"
           /\ nret.n1 # nret.n2
           /\ \E i \in 1..Len(nflags) :
                 {nret.n1, nret.n2} \subseteq
                     SetOnCommandLine(PartsOf(getName(nflags[i])))
           /\ nset = nparsed

\* C3 as stated: a second call on the table a successful first call left
\* succeeds and leaves that table as it is.
C3_Idempotent ==
    (ncalls = 2 /\ nfirst = Nil) => (nret = Nil /\ nset = nafter1)

\* C3 amended: a later call never changes the table a successful first call
\* left, and it succeeds exactly when the first call copied nothing;
\* otherwise it reports a conflict between the alias that was set and one
\* the first call copied to.
C3_SecondCall ==
    (ncalls >= 2 /\ nfirst = Nil)
        => /\ nset = nafter1
           /\ (nret = Nil) <=> (nafter1 = nparsed)
           /\ nret # Nil => nret.type = "conflict"

\* a second call that fails on the table the first call produced
C3_Witness ==
    /\ ncalls = 2
    /\ nfirst = Nil
    /\ nafter1 # nparsed
    /\ nret.type = "conflict"
    /\ nset = nafter1

====
